---- MODULE Spec2Model ----
(***************************************************************************)
(* Football commentary analysis: event detection and deduplication         *)
(* (information_extraction.py), multi-signal intensity scoring             *)
(* (sentiment_analyzer.py), loudness peak detection (audio_volume.py).     *)
(*                                                                         *)
(* Conventions of the model                                                *)
(*   - A text is a sequence of tokens.  A token is a record [w, c]: w is   *)
(*     the token's characters in lower case, c its casing ("lower",        *)
(*     "Title" or "UPPER").  Word tokens are separated by one space; a     *)
(*     punctuation token ("!", "?", ".") is attached to the token before   *)
(*     it and followed by a space or the end of the text; the token " "    *)
(*     is one extra blank.                                                 *)
(*   - Times are integers in ticks of 1/TicksPerSecond second.             *)
(*   - Scores are integers in units of 1/Unit (Unit stands for 1.0); the   *)
(*     arithmetic is that of the reals, not of binary floating point.      *)
(*     Unit is chosen so that every product and quotient of the scorer is   *)
(*     exact for texts of up to 6 words; for a longer text a quotient is    *)
(*     cut to a multiple of 1/Unit.                                        *)
(***************************************************************************)
EXTENDS Integers, Sequences, FiniteSets, TLC

VARIABLES
    \* detect_events_with_timestamps
    segments, events, deduplicated, di, epc,
    \* the event pattern matcher applied to one text
    mtext, mtype, mpc,
    \* analyze_sentiment, and the module's nlp handle
    nlp, volume_lookup, asegments, results, apc,
    \* detect_volume_peaks
    threshold, min_gap_seconds, timeline, peaks, last_peak_time, ppc,
    \* get_intensity_summary
    analyzed, summary, spc,
    \* generate_event_timeline
    tevents, etimeline, tpc,
    \* get_peak_moments and get_exciting_moments
    top_n, ithreshold, moments, exciting, qpc,
    \* calculate_intensity applied to one text
    itext, ihandle, iscore, ipc,
    \* get_volume_for_segments
    sample_rate, audio_data, vsegments, vresults, start_idx, end_idx,
    vbranch, vpc

evars == <<segments, events, deduplicated, di, epc>>
mvars == <<mtext, mtype, mpc>>
avars == <<nlp, volume_lookup, asegments, results, apc>>
pvars == <<threshold, min_gap_seconds, timeline, peaks, last_peak_time, ppc>>
svars == <<analyzed, summary, spc>>
tvars == <<tevents, etimeline, tpc>>
qvars == <<top_n, ithreshold, moments, exciting, qpc>>
ivars == <<itext, ihandle, iscore, ipc>>
vvars == <<sample_rate, audio_data, vsegments, vresults, start_idx, end_idx,
           vbranch, vpc>>
vars == <<segments, events, deduplicated, di, epc, mtext, mtype, mpc,
          nlp, volume_lookup, asegments, results, apc,
          threshold, min_gap_seconds, timeline, peaks, last_peak_time, ppc,
          analyzed, summary, spc, tevents, etimeline, tpc,
          top_n, ithreshold, moments, exciting, qpc,
          itext, ihandle, iscore, ipc,
          sample_rate, audio_data, vsegments, vresults, start_idx, end_idx,
          vbranch, vpc>>

(***************************************************************************)
(* Bounds of the model.                                                    *)
(***************************************************************************)
MaxSegments == 3
MaxClauses == 3
MaxAnalyzed == 2
MaxSamples == 11
MaxRecords == 3

(***************************************************************************)
(* Units.                                                                  *)
(***************************************************************************)
TicksPerSecond == 100
Unit == 6000

Abs(x) == IF x < 0 THEN -x ELSE x
Min(a, b) == IF a <= b THEN a ELSE b
Max(a, b) == IF a >= b THEN a ELSE b

(***************************************************************************)
(* Tokens and texts.                                                       *)
(***************************************************************************)
W(w) == [w |-> w, c |-> "lower"]
Cap(w) == [w |-> w, c |-> "Title"]
Up(w) == [w |-> w, c |-> "UPPER"]

\* str.lower()
Lower(text) == [i \in DOMAIN text |-> [w |-> text[i].w, c |-> "lower"]]

\* str.strip(): leading and trailing blanks removed
RECURSIVE LStrip(_)
LStrip(text) ==
    IF text # <<>> /\ Head(text).w = " " THEN LStrip(Tail(text)) ELSE text

RECURSIVE RStrip(_)
RStrip(text) ==
    IF text # <<>> /\ text[Len(text)].w = " "
    THEN RStrip(SubSeq(text, 1, Len(text) - 1))
    ELSE text

Strip(text) == RStrip(LStrip(text))

\* re.search of a phrase of lower-case words between word boundaries,
\* case-sensitively: the words occur as consecutive lower-case tokens
Occurs(phrase, text) ==
    \E i \in 1..(Len(text) - Len(phrase) + 1) :
        \A j \in 1..Len(phrase) :
            /\ text[i + j - 1].w = phrase[j]
            /\ text[i + j - 1].c = "lower"

(***************************************************************************)
(* EVENT_PATTERNS: per category, the phrases its regular expressions       *)
(* accept (optional characters expanded).  The alternatives "scores!" and  *)
(* "scored!" of the first goal expression need a word character right      *)
(* after the "!" (the closing \b), which no text has under the token       *)
(* convention above, so they accept nothing here.                          *)
(***************************************************************************)
EventTypes ==
    <<"goal", "foul", "yellow_card", "red_card", "offside", "substitution", "injury">>

GoalPatterns ==
    { <<"he", "scores">>, <<"its", "a", "goal">>, <<"it's", "a", "goal">>,
      <<"what", "a", "goal">>, <<"brilliant", "goal">>,
      <<"put", "it", "in">>, <<"puts", "it", "in">>, <<"into", "the", "net">>,
      <<"back", "of", "the", "net">>, <<"find", "the", "net">>,
      <<"finds", "the", "net">>, <<"roof", "of", "the", "net">>,
      <<"first", "goal">>, <<"second", "goal">>, <<"third", "goal">>,
      <<"opening", "goal">>, <<"open", "the", "scoring">>,
      <<"opens", "the", "scoring">>,
      <<"brilliant", "finish">>, <<"lovely", "finish">>,
      <<"clinical", "finish">>, <<"tucks", "it", "away">>,
      <<"break", "the", "deadlock">>, <<"breaks", "the", "deadlock">>,
      <<"doubles", "the", "lead">>, <<"seal", "the", "victory">>,
      <<"seals", "the", "victory">>,
      <<"smashed", "in", "the", "rebound">>, <<"and", "it's", "in">>,
      <<"one", "null">>, <<"two", "null">>, <<"three", "null">>,
      <<"four", "null">>, <<"five", "null">>,
      <<"one", "one">>, <<"two", "one">>, <<"three", "one">>,
      <<"two", "two">>, <<"three", "two">>,
      <<"1-0">>, <<"2-0">>, <<"3-0">>, <<"4-0">>, <<"1-1">>, <<"2-1">>,
      <<"3-1">>, <<"2-2">>, <<"3-2">> }

FoulPatterns ==
    { <<"foul">>, <<"fouls">>, <<"fouled">>, <<"tackle">>, <<"tackled">>,
      <<"brought", "down">>, <<"pulled", "back">>,
      <<"trip">>, <<"trips">>, <<"tripped">>, <<"push">>, <<"pushed">>,
      <<"shoved">> }

YellowCardPatterns ==
    { <<"yellow", "card">>, <<"booked">>, <<"booking">>, <<"caution">>,
      <<"cautioned">>,
      <<"shown", "yellow">>, <<"get", "a", "yellow">>, <<"gets", "a", "yellow">>,
      <<"receive", "a", "yellow">>, <<"receives", "a", "yellow">> }

RedCardPatterns ==
    { <<"red", "card">>, <<"sent", "off">>, <<"sending", "off">>,
      <<"dismissed">>, <<"ejected">>,
      <<"straight", "red">>, <<"second", "yellow">>, <<"off", "he", "goes">> }

OffsidePatterns ==
    { <<"offside">>, <<"off-side">>, <<"flag", "is", "up">>,
      <<"linesmans", "flag">>, <<"linesman's", "flag">> }

SubstitutionPatterns ==
    { <<"substitution">>, <<"sub">>, <<"replaced">>, <<"replacing">>,
      <<"go", "off">>, <<"goes", "off">>,
      <<"bring", "on">>, <<"brings", "on">>, <<"take", "off">>,
      <<"takes", "off">> }

InjuryPatterns ==
    { <<"injury">>, <<"hurt">>, <<"treatment">>, <<"stretcher">>,
      <<"medical">>,
      <<"holding">>, <<"injured">>, <<"limping">>, <<"medic">> }

EVENT_PATTERNS(type) ==
    CASE type = "goal" -> GoalPatterns
      [] type = "foul" -> FoulPatterns
      [] type = "yellow_card" -> YellowCardPatterns
      [] type = "red_card" -> RedCardPatterns
      [] type = "offside" -> OffsidePatterns
      [] type = "substitution" -> SubstitutionPatterns
      [] type = "injury" -> InjuryPatterns

\* any(re.search(p, text_lower) for p in patterns)
MatchesCategory(type, text_lower) ==
    \E p \in EVENT_PATTERNS(type) : Occurs(p, text_lower)

\* for event_type, patterns in EVENT_PATTERNS.items(): if any(...): ... break
\* the first category, from position k of the order, that matches; "none"
\* when the loop runs out
RECURSIVE FirstMatchFrom(_, _)
FirstMatchFrom(k, text_lower) ==
    IF k > Len(EventTypes) THEN "none"
    ELSE IF MatchesCategory(EventTypes[k], text_lower) THEN EventTypes[k]
    ELSE FirstMatchFrom(k + 1, text_lower)

\* variant: the loop keeps the last category that matches
RECURSIVE LastMatchFrom(_, _)
LastMatchFrom(k, text_lower) ==
    IF k < 1 THEN "none"
    ELSE IF MatchesCategory(EventTypes[k], text_lower) THEN EventTypes[k]
    ELSE LastMatchFrom(k - 1, text_lower)

MatchEventLast(text) == LastMatchFrom(Len(EventTypes), Lower(text))
MatchEvent(text) == FirstMatchFrom(1, Lower(text))

(***************************************************************************)
(* Sample commentary.                                                      *)
(***************************************************************************)
TxBackOfNet == <<W(" "), Cap("back"), W("of"), W("the"), W("net"), W("!")>>
TxScoresAfterFoul ==
    <<Cap("he"), W("scores"), W("after"), W("the"), W("foul"), W("!")>>
TxFoul == <<Cap("that"), W("is"), W("a"), W("foul"), W(".")>>
TxBooked == <<Cap("booked"), W("and"), W("then"), W("sent"), W("off"), W(".")>>
TxQuiet == <<Cap("patient"), W("passing"), W("at"), W("the"), W("back")>>

EventTexts == {TxBackOfNet, TxScoresAfterFoul, TxFoul, TxBooked, TxQuiet}

\* segment start times, in seconds
EventSeconds == {0, 8, 12, 16}
EventTimes == {s * TicksPerSecond : s \in EventSeconds}

\* clauses the matcher is exercised on: one or two per category, some
\* matching nothing
Clauses ==
    { <<Cap("he"), W("scores")>>, <<Up("goal"), W("!")>>, <<W("2-1")>>,
      <<W("fouled")>>, <<W("booked")>>, <<W("sent"), W("off")>>,
      <<W("off-side")>>, <<W("goes"), W("off")>>, <<W("hurt")>>,
      <<W("the"), W("change")>>, <<W("comes"), W("on")>> }

RECURSIVE ClauseTexts(_)
ClauseTexts(n) ==
    IF n = 0 THEN {<<>>}
    ELSE LET shorter == ClauseTexts(n - 1)
         IN  shorter \cup {t \o c : t \in shorter, c \in Clauses}

MatchTexts == ClauseTexts(MaxClauses)

(***************************************************************************)
(* detect_events_with_timestamps                                           *)
(***************************************************************************)
GOAL_TIME_WINDOW == 15
EVENT_TIME_WINDOW == 10

\* window = GOAL_TIME_WINDOW if event["type"] == "goal" else EVENT_TIME_WINDOW
Window(type) ==
    IF type = "goal" THEN GOAL_TIME_WINDOW * TicksPerSecond
    ELSE EVENT_TIME_WINDOW * TicksPerSecond

\* any(e["type"] == event["type"] and abs(e["time"] - event["time"]) < window
\*     for e in deduplicated)
\* variant: only the last kept event is compared
SuppressedByLast(event, kept) ==
    /\ kept # <<>>
    /\ kept[Len(kept)].type = event.type
    /\ Abs(kept[Len(kept)].time - event.time) < Window(event.type)
\* variant: kept events of any type are compared
SuppressedAnyType(event, kept) ==
    \E k \in DOMAIN kept :
        Abs(kept[k].time - event.time) < Window(event.type)
Suppressed(event, kept) ==
    \E k \in DOMAIN kept :
        /\ kept[k].type = event.type
        /\ Abs(kept[k].time - event.time) < Window(event.type)

\* if not any(...): deduplicated.append(event)
\* variant: a kept event goes to the front of the list
AcceptFront(kept, event) ==
    IF Suppressed(event, kept) THEN kept ELSE <<event>> \o kept
\* variant: the latest mention replaces the first kept event it conflicts with
AcceptLatest(kept, event) ==
    IF Suppressed(event, kept)
    THEN LET k == CHOOSE k \in DOMAIN kept :
                    /\ kept[k].type = event.type
                    /\ Abs(kept[k].time - event.time) < Window(event.type)
                    /\ \A h \in 1..(k - 1) :
                           ~(/\ kept[h].type = event.type
                             /\ Abs(kept[h].time - event.time) < Window(event.type))
         IN  SubSeq(kept, 1, k - 1) \o SubSeq(kept, k + 1, Len(kept)) \o <<event>>
    ELSE Append(kept, event)
\* variant: the latest mention wins, the kept events it conflicts with go
AcceptLatestWins(kept, event) ==
    SelectSeq(kept, LAMBDA e : ~(/\ e.type = event.type
                                 /\ Abs(e.time - event.time) < Window(event.type)))
        \o <<event>>
Accept(kept, event) ==
    IF Suppressed(event, kept) THEN kept ELSE Append(kept, event)

\* the deduplication pass (deduplicated = [] and the loop over the
\* candidates) as a function of the candidate list
RECURSIVE DedupFrom(_, _)
DedupFrom(cands, kept) ==
    IF cands = <<>> THEN kept
    ELSE DedupFrom(Tail(cands), Accept(kept, Head(cands)))

Deduplicate(cands) == DedupFrom(cands, <<>>)

\* the categories whose rule set matches the segment's lower-cased text
Matching(text) ==
    {EventTypes[k] : k \in {h \in DOMAIN EventTypes :
                                MatchesCategory(EventTypes[h], Lower(text))}}

\* variant: no break, one candidate per matching category
CandidateAll(segment) ==
    LET hit == {h \in DOMAIN EventTypes :
                   MatchesCategory(EventTypes[h], Lower(segment.text))}
        RECURSIVE From(_)
        From(k) ==
            IF k > Len(EventTypes) THEN <<>>
            ELSE (IF k \in hit
                  THEN << [type |-> EventTypes[k], text |-> Strip(segment.text),
                           time |-> segment.start] >>
                  ELSE <<>>) \o From(k + 1)
    IN  From(1)
\* the candidate a segment contributes: none, or one event
Candidate(segment) ==
    LET type == MatchEvent(segment.text)
    IN  IF type = "none" THEN <<>>
        ELSE << [type |-> type, text |-> Strip(segment.text),
                 time |-> segment.start] >>

EventsInit ==
    /\ segments = <<>>
    /\ events = <<>>
    /\ deduplicated = <<>>
    /\ di = 0
    /\ epc = "scan"

\* one iteration of "for segment in segments": the next segment of the
\* input is any text at any start time
ScanSegment ==
    /\ epc = "scan"
    /\ Len(segments) < MaxSegments
    /\ \E text \in EventTexts, start \in EventTimes :
        LET segment == [text |-> text, start |-> start]
        IN  /\ segments' = Append(segments, segment)
            /\ events' = events \o Candidate(segment)
    /\ UNCHANGED <<deduplicated, di, epc, mvars, avars, pvars, svars, tvars,
                   qvars, ivars, vvars>>

\* the segment loop ends; deduplicated = []
EndScan ==
    /\ epc = "scan"
    /\ epc' = "dedup"
    /\ di' = 1
    /\ deduplicated' = <<>>
    /\ UNCHANGED <<segments, events, mvars, avars, pvars, svars, tvars, qvars,
                   ivars, vvars>>

\* one iteration of "for event in events"
DedupStep ==
    /\ epc = "dedup"
    /\ di <= Len(events)
    /\ deduplicated' = Accept(deduplicated, events[di])
    /\ di' = di + 1
    /\ UNCHANGED <<segments, events, epc, mvars, avars, pvars, svars, tvars,
                   qvars, ivars, vvars>>

\* return deduplicated
ReturnEvents ==
    /\ epc = "dedup"
    /\ di > Len(events)
    /\ epc' = "done"
    /\ UNCHANGED <<segments, events, deduplicated, di, mvars, avars, pvars,
                   svars, tvars, qvars, ivars, vvars>>

MatchIdle ==
    /\ mtext = <<>>
    /\ mtype = "none"
    /\ mpc = "idle"

PeaksIdle ==
    /\ threshold = 0
    /\ min_gap_seconds = 0
    /\ timeline = <<>>
    /\ peaks = <<>>
    /\ last_peak_time = 0
    /\ ppc = "idle"

SummaryIdle ==
    /\ analyzed = <<>>
    /\ summary = <<>>
    /\ spc = "idle"

SentimentIdle ==
    /\ nlp = "loaded"
    /\ volume_lookup = <<>>
    /\ asegments = <<>>
    /\ results = <<>>
    /\ apc = "idle"

TimelineIdle ==
    /\ tevents = <<>>
    /\ etimeline = <<>>
    /\ tpc = "idle"

MomentsIdle ==
    /\ top_n = 0
    /\ ithreshold = 0
    /\ moments = <<>>
    /\ exciting = <<>>
    /\ qpc = "idle"

IntensityIdle ==
    /\ itext = <<>>
    /\ ihandle = "loaded"
    /\ iscore = 0
    /\ ipc = "idle"

VolumeIdle ==
    /\ sample_rate = 1
    /\ audio_data = <<>>
    /\ vsegments = <<>>
    /\ vresults = <<>>
    /\ start_idx = 0
    /\ end_idx = 0
    /\ vbranch = "none"
    /\ vpc = "idle"

EventsIdle ==
    /\ segments = <<>>
    /\ events = <<>>
    /\ deduplicated = <<>>
    /\ di = 0
    /\ epc = "idle"

InitEvents == EventsInit /\ MatchIdle /\ SentimentIdle /\ PeaksIdle /\ SummaryIdle
        /\ TimelineIdle /\ MomentsIdle /\ IntensityIdle /\ VolumeIdle
NextEvents == ScanSegment \/ EndScan \/ DedupStep \/ ReturnEvents
SpecEvents == InitEvents /\ [][NextEvents]_vars

(***************************************************************************)
(* reproduce_issue.py: the detector run on commentary about a change.      *)
(***************************************************************************)
MaxReproduced == 5

TxNoChange ==
    <<Cap("but"), W("there"), W("is"), W("no"), W("change"), W("in"),
      W("the"), W("score"), W("line"), W("in"), Cap("sephora"), W(".")>>
TxWaitsChange ==
    <<Cap("and"), W("still"), Cap("portugal"), W("waits"), W("to"),
      W("make"), W("the"), W("change"), W(".")>>
TxChangeMade ==
    <<Cap("and"), W("now"), W("the"), W("change"), W("will"), W("be"),
      W("made"), W(".")>>
TxSubstitution ==
    <<Cap("the"), W("manager"), W("decides"), W("to"), W("make"), W("a"),
      W("substitution"), W(".")>>
TxComesOn ==
    <<Cap("ronaldo"), W("comes"), W("on"), W("for"), Cap("portugal"), W(".")>>

\* segments = [...], start in minutes * 60
ReproduceSegments ==
    << [text |-> TxNoChange, start |-> 64 * 60 * TicksPerSecond],
       [text |-> TxWaitsChange, start |-> 70 * 60 * TicksPerSecond],
       [text |-> TxChangeMade, start |-> 71 * 60 * TicksPerSecond],
       [text |-> TxSubstitution, start |-> 72 * 60 * TicksPerSecond],
       [text |-> TxComesOn, start |-> 73 * 60 * TicksPerSecond] >>

\* one iteration of "for segment in segments" on a list made of the
\* script's segments
ScanReproduced ==
    /\ epc = "scan"
    /\ Len(segments) < MaxReproduced
    /\ \E k \in DOMAIN ReproduceSegments :
        LET segment == ReproduceSegments[k]
        IN  /\ segments' = Append(segments, segment)
            /\ events' = events \o Candidate(segment)
    /\ UNCHANGED <<deduplicated, di, epc, mvars, avars, pvars, svars, tvars,
                   qvars, ivars, vvars>>

NextReproduce == ScanReproduced \/ EndScan \/ DedupStep \/ ReturnEvents
SpecReproduce == InitEvents /\ [][NextReproduce]_vars

(***************************************************************************)
(* The event pattern matcher on one text.                                  *)
(***************************************************************************)
MatchInit ==
    /\ mtext \in MatchTexts
    /\ mtype = "none"
    /\ mpc = "call"

Classify ==
    /\ mpc = "call"
    /\ mtype' = MatchEvent(mtext)
    /\ mpc' = "done"
    /\ UNCHANGED <<mtext, evars, avars, pvars, svars, tvars, qvars, ivars,
                   vvars>>

InitMatch == MatchInit /\ EventsIdle /\ SentimentIdle /\ PeaksIdle /\ SummaryIdle
        /\ TimelineIdle /\ MomentsIdle /\ IntensityIdle /\ VolumeIdle
NextMatch == Classify
SpecMatch == InitMatch /\ [][NextMatch]_vars

(***************************************************************************)
(* Characters of the tokens of the sample texts: number of letters, and    *)
(* longest run of consecutive letters where it is not the whole token.     *)
(***************************************************************************)
WordLetters ==
    [w \in {"a"} |-> 1]
    @@ [w \in {"is", "it", "in", "on", "oh", "no", "so", "at"} |-> 2]
    @@ [w \in {"the"} |-> 3]
    @@ [w \in {"goal", "what", "from", "that", "foul", "good", "back"} |-> 4]
    @@ [w \in {"close", "shots"} |-> 5]
    @@ [w \in {"strike"} |-> 6]
    @@ [w \in {"ronaldo", "patient", "passing"} |-> 7]
    @@ [w \in {"brilliant"} |-> 9]

Letters(w) == IF w \in DOMAIN WordLetters THEN WordLetters[w] ELSE 0
LetterRun(w) == Letters(w)

\* sum(1 for c in text if c.isupper()), per token
UpperLetters(tok) ==
    CASE tok.c = "UPPER" -> Letters(tok.w)
      [] tok.c = "Title" -> Min(1, Letters(tok.w))
      [] OTHER -> 0

\* p occurs inside the word w
Inside == {<<"shot", "shots">>, <<"pass", "passing">>}
Contains(w, p) == w = p \/ <<p, w>> \in Inside
StartsWith(w, p) == w = p \/ <<p, w>> \in Inside
EndsWith(w, p) == w = p

(***************************************************************************)
(* The annotation provider (spaCy): per token its lemma, part of speech     *)
(* and punctuation / space flags.                                          *)
(***************************************************************************)
LemmaOf(w) ==
    CASE w = "shots" -> "shot"
      [] w = "passing" -> "pass"
      [] w = "is" -> "be"
      [] OTHER -> w

PosOf(w) ==
    CASE w \in {"brilliant", "good", "close", "patient"} -> "ADJ"
      [] w \in {"so"} -> "ADV"
      [] w \in {"!", "?", "."} -> "PUNCT"
      [] w = " " -> "SPACE"
      [] OTHER -> "NOUN"

\* doc = nlp(text)
Doc(text) ==
    [i \in DOMAIN text |->
        [lemma_ |-> LemmaOf(text[i].w), pos_ |-> PosOf(text[i].w),
         is_punct |-> text[i].w \in {"!", "?", "."},
         is_space |-> text[i].w = " "]]

EXCITEMENT_LEMMAS ==
    {"goal", "score", "brilliant", "amazing", "incredible", "fantastic",
     "unbelievable", "wow", "beautiful", "stunning", "magnificent",
     "sensational", "spectacular", "wonderful", "superb", "perfect",
     "genius", "magic", "masterclass", "clinical", "unstoppable"}

TENSION_LEMMAS ==
    {"foul", "card", "injury", "hurt", "miss", "save", "block",
     "dangerous", "close", "almost", "nearly", "offside", "controversial"}

INTENSIFIERS ==
    {"very", "so", "really", "absolutely", "completely", "totally",
     "incredibly", "extremely", "truly", "just"}

NEGATIONS == {"not", "no", "never", "none", "nothing", "neither", "nobody"}

(***************************************************************************)
(* Rounding: round(x, n) rounds to the nearest multiple of the step, a tie  *)
(* going to the even multiple.                                             *)
(***************************************************************************)
RoundTo(x, step) ==
    LET q == x \div step
        r == x % step
    IN  IF 2 * r < step THEN q * step
        ELSE IF 2 * r > step THEN (q + 1) * step
        ELSE IF q % 2 = 0 THEN q * step
        ELSE (q + 1) * step

\* round(x, 2) of a score, round(x, 1) of a time in seconds
Round2(x) == RoundTo(x, Unit \div 100)
RoundTime1(t) == RoundTo(t, TicksPerSecond \div 10)

(***************************************************************************)
(* analyze_with_spacy                                                      *)
(***************************************************************************)
AnalyzeWithSpacy(text, handle) ==
    IF handle = "none"
    THEN [excitement_score |-> 0, tension_score |-> 0,
          has_intensifier |-> FALSE, has_negation |-> FALSE]
    ELSE
    LET doc == Doc(text)
        Count(S) == Cardinality({i \in DOMAIN doc : doc[i].lemma_ \in S})
        excitement_count == Count(EXCITEMENT_LEMMAS)
        tension_count == Count(TENSION_LEMMAS)
        intensifier_count == Count(INTENSIFIERS)
        adjectives == {i \in DOMAIN doc : doc[i].pos_ \in {"ADJ", "ADV"}}
        strong_adj_count ==
            Cardinality({i \in adjectives : doc[i].lemma_ \in EXCITEMENT_LEMMAS})
        word_count ==
            Cardinality({i \in DOMAIN doc :
                            ~doc[i].is_punct /\ ~doc[i].is_space})
        \* (excitement_count + strong_adj_count * 0.5) / max(word_count, 1) * 3
        excitement3 ==
            (3 * (2 * excitement_count + strong_adj_count) * Unit)
                \div (2 * Max(word_count, 1))
        tension3 == (3 * tension_count * Unit) \div Max(word_count, 1)
    IN  [excitement_score |-> Min(excitement3, Unit),
         tension_score |-> Min(tension3, Unit),
         has_intensifier |-> intensifier_count > 0,
         has_negation |-> Count(NEGATIONS) > 0,
         adjective_count |-> Cardinality(adjectives),
         word_count |-> word_count]

(***************************************************************************)
(* INTENSITY_PATTERNS, each searched in the raw text with re.IGNORECASE.   *)
(***************************************************************************)
\* !{2,}
HighExclamations(text) ==
    \E i \in 1..(Len(text) - 1) : text[i].w = "!" /\ text[i + 1].w = "!"

\* [A-Z]{3,}, case ignored: three letters in a row
HighCapsRun(text) == \E i \in DOMAIN text : LetterRun(text[i].w) >= 3

\* \b(GOAL|YES|WOW|OH)\b
HighShout(text) ==
    \E i \in DOMAIN text : text[i].w \in {"goal", "yes", "wow", "oh"}

\* what a (goal|strike|save|finish|pass|hit)
HighWhatA(text) ==
    \E i \in 1..(Len(text) - 2) :
        /\ EndsWith(text[i].w, "what")
        /\ text[i + 1].w = "a"
        /\ \E p \in {"goal", "strike", "save", "finish", "pass", "hit"} :
              StartsWith(text[i + 2].w, p)

\* (brilliant|amazing|incredible|unbelievable|sensational)
HighAdjective(text) ==
    \E i \in DOMAIN text :
        \E p \in {"brilliant", "amazing", "incredible", "unbelievable",
                  "sensational"} : Contains(text[i].w, p)

\* !
MediumExclamation(text) == \E i \in DOMAIN text : text[i].w = "!"

\* (good|nice|well done|great)
MediumPraise(text) ==
    \/ \E i \in DOMAIN text :
          \E p \in {"good", "nice", "great"} : Contains(text[i].w, p)
    \/ \E i \in 1..(Len(text) - 1) :
          EndsWith(text[i].w, "well") /\ StartsWith(text[i + 1].w, "done")

\* (chance|shot|opportunity|attack)
MediumChance(text) ==
    \E i \in DOMAIN text :
        \E p \in {"chance", "shot", "opportunity", "attack"} :
            Contains(text[i].w, p)

B(cond) == IF cond THEN 1 ELSE 0

\* variant: the high-intensity patterns count once, however many match
HighMatchesOnce(text) ==
    B(HighExclamations(text) \/ HighCapsRun(text) \/ HighShout(text)
        \/ HighWhatA(text) \/ HighAdjective(text))
HighMatches(text) ==
    B(HighExclamations(text)) + B(HighCapsRun(text)) + B(HighShout(text))
        + B(HighWhatA(text)) + B(HighAdjective(text))

MediumMatches(text) ==
    B(MediumExclamation(text)) + B(MediumPraise(text)) + B(MediumChance(text))

\* text.count(ch)
CountChar(text, ch) == Cardinality({i \in DOMAIN text : text[i].w = ch})

RECURSIVE SumLetters(_, _)
SumLetters(text, upper) ==
    IF text = <<>> THEN 0
    ELSE (IF upper THEN UpperLetters(Head(text)) ELSE Letters(Head(text).w))
         + SumLetters(Tail(text), upper)

(***************************************************************************)
(* calculate_intensity                                                     *)
(***************************************************************************)
\* the sum of the cue terms, before the cap
IntensityScore(text, handle) ==
    LET spacy_analysis == AnalyzeWithSpacy(text, handle)
        caps_chars == SumLetters(text, TRUE)
        alpha_chars == SumLetters(text, FALSE)
    IN  (spacy_analysis.excitement_score * 4) \div 10
        + (spacy_analysis.tension_score * 2) \div 10
        + (IF spacy_analysis.has_intensifier THEN Unit \div 10 ELSE 0)
        + HighMatches(text) * ((2 * Unit) \div 10)
        + MediumMatches(text) * ((8 * Unit) \div 100)
        + Min(CountChar(text, "!") * ((8 * Unit) \div 100), (25 * Unit) \div 100)
        + Min(CountChar(text, "?") * ((5 * Unit) \div 100), (10 * Unit) \div 100)
        \* caps_ratio = caps_chars / alpha_chars > 0.3
        + (IF alpha_chars > 0 /\ 10 * caps_chars > 3 * alpha_chars
           THEN (15 * Unit) \div 100 ELSE 0)

\* variant: the cap at 1.0 is missing
CalculateIntensityNoCap(text, handle) == IntensityScore(text, handle)
CalculateIntensity(text, handle) == Min(IntensityScore(text, handle), Unit)

(***************************************************************************)
(* classify_moment, get_sentiment_label                                    *)
(***************************************************************************)
ClassifyMoment(intensity) ==
    IF intensity >= (6 * Unit) \div 10 THEN "exciting"
    ELSE IF intensity >= (3 * Unit) \div 10 THEN "moderate"
    ELSE "calm"

\* the thresholds of get_sentiment_label, shared with the variant below
GetSentimentLabelBase(intensity, tension_score) ==
    IF intensity >= (7 * Unit) \div 10 THEN "very_exciting"
    ELSE IF intensity >= (5 * Unit) \div 10
         THEN (IF tension_score > (3 * Unit) \div 10 THEN "tense"
               ELSE "exciting")
    ELSE IF intensity >= (3 * Unit) \div 10 THEN "moderate"
    ELSE "calm"
\* variant: the label is taken from the tension score rounded to 2 decimals
GetSentimentLabelRounded(intensity, tension_score) ==
    GetSentimentLabelBase(intensity, Round2(tension_score))
GetSentimentLabel(intensity, tension_score) ==
    IF intensity >= (7 * Unit) \div 10 THEN "very_exciting"
    ELSE IF intensity >= (5 * Unit) \div 10
         THEN (IF tension_score > (3 * Unit) \div 10 THEN "tense"
               ELSE "exciting")
    ELSE IF intensity >= (3 * Unit) \div 10 THEN "moderate"
    ELSE "calm"

(***************************************************************************)
(* calculate_intensity_with_volume                                         *)
(***************************************************************************)
\* variant: the bonus for two high signals is never added
CalculateIntensityWithVolumeNoBonus(text, volume_score, handle) ==
    LET text_intensity == CalculateIntensity(text, handle)
    IN  Round2((text_intensity * 6) \div 10 + (volume_score * 4) \div 10)
CalculateIntensityWithVolume(text, volume_score, handle) ==
    LET text_intensity == CalculateIntensity(text, handle)
        combined_intensity ==
            (text_intensity * 6) \div 10 + (volume_score * 4) \div 10
    IN  Round2(IF text_intensity > (5 * Unit) \div 10
                  /\ volume_score > (5 * Unit) \div 10
               THEN Min(combined_intensity + Unit \div 10, Unit)
               ELSE combined_intensity)

(***************************************************************************)
(* analyze_sentiment                                                       *)
(***************************************************************************)
\* dict.get(key, default)
Get(d, key, default) == IF key \in DOMAIN d THEN d[key] ELSE default

\* sample commentary for the scorer
TxGoalShout ==
    <<Up("goal"), W("!"), W("!"), W("!"), Cap("what"), W("a"), W("strike"),
      W("from"), Cap("ronaldo"), W("!")>>
TxSoClose == <<Cap("it"), W("is"), W("so"), W("close"), W("!")>>
TxIsItIn == <<W("is"), W("it"), W("in")>>
TxGoodShots == <<W(" "), Cap("good"), W("shots")>>
\* a long segment: 69 words, 7 of them tension words
TxLong ==
    [i \in 1..61 |-> W("on")] \o [i \in 1..7 |-> W("foul")]
        \o <<W("brilliant"), W("!")>>

SentimentTexts ==
    {TxGoalShout, TxFoul, TxSoClose, TxIsItIn, TxGoodShots, TxLong}

\* start times: 0 s, 0.04 s, 1 s
SentimentTimes == {0, 4, TicksPerSecond}

\* volume_score values: 0, 0.3, 0.6, 1.0
VolumeLevels == {0, (3 * Unit) \div 10, (6 * Unit) \div 10, Unit}

\* transcript segments, some without a start, one without a text
SentimentSegments ==
    [text : SentimentTexts, start : SentimentTimes]
        \cup [text : {TxSoClose}] \cup [start : {TicksPerSecond}]

\* spacy_analysis["word_count"] raises KeyError when the analysis has no
\* such key
SegmentRaises(segment, handle) ==
    "word_count" \notin DOMAIN AnalyzeWithSpacy(Get(segment, "text", <<>>), handle)

\* the record built for one segment
SegmentResult(segment, lookup, handle) ==
    LET text == Get(segment, "text", <<>>)
        start_time == Get(segment, "start", 0)
        spacy_analysis == AnalyzeWithSpacy(text, handle)
        volume_score == Get(lookup, RoundTime1(start_time), 0)
        intensity ==
            IF volume_score > 0
            THEN CalculateIntensityWithVolume(text, volume_score, handle)
            ELSE CalculateIntensity(text, handle)
    IN  LET result ==
              [time |-> start_time,
               text |-> Strip(text),
               intensity |-> intensity,
               mood |-> ClassifyMoment(intensity),
               sentiment |->
                   GetSentimentLabel(intensity, spacy_analysis.tension_score),
               linguistic_features |->
                   [excitement_score |-> Round2(spacy_analysis.excitement_score),
                    tension_score |-> Round2(spacy_analysis.tension_score),
                    has_intensifier |-> spacy_analysis.has_intensifier,
                    word_count |-> spacy_analysis.word_count]]
        IN  IF volume_score > 0
            THEN [k \in DOMAIN result \cup {"audio_features"} |->
                     IF k = "audio_features"
                     THEN [volume_score |-> volume_score]
                     ELSE result[k]]
            ELSE result

\* the module is imported: the spaCy model loads, or nlp is None
SentimentInit ==
    /\ nlp \in {"loaded", "none"}
    /\ volume_lookup = <<>>
    /\ asegments = <<>>
    /\ results = <<>>
    /\ apc = "lookup"

\* one iteration of "for seg in segments_with_volume"
BuildLookup ==
    /\ apc = "lookup"
    /\ \E seg \in [start : SentimentTimes, volume_score : VolumeLevels]
                  \cup [start : {0}] :
        LET time_key == RoundTime1(Get(seg, "start", 0))
        IN  volume_lookup' =
               [k \in DOMAIN volume_lookup \cup {time_key} |->
                   IF k = time_key THEN Get(seg, "volume_score", 0)
                   ELSE volume_lookup[k]]
    /\ UNCHANGED <<nlp, asegments, results, apc, evars, mvars, pvars, svars,
                   tvars, qvars, ivars, vvars>>

\* the lookup is complete (or segments_with_volume was None or empty)
StartAnalysis ==
    /\ apc = "lookup"
    /\ apc' = "analyze"
    /\ UNCHANGED <<nlp, volume_lookup, asegments, results, evars, mvars,
                   pvars, svars, tvars, qvars, ivars, vvars>>

\* variant: the newest record is put in front of the list
AnalyzeSegmentNewestFirst ==
    /\ apc = "analyze"
    /\ Len(asegments) < MaxAnalyzed
    /\ \E segment \in SentimentSegments :
        /\ asegments' = Append(asegments, segment)
        /\ IF SegmentRaises(segment, nlp)
           THEN apc' = "raised" /\ results' = results
           ELSE /\ apc' = apc
                /\ results' =
                     <<SegmentResult(segment, volume_lookup, nlp)>> \o results
    /\ UNCHANGED <<nlp, volume_lookup, evars, mvars, pvars, svars, tvars,
                   qvars, ivars, vvars>>

\* one iteration of "for segment in segments"
AnalyzeSegment ==
    /\ apc = "analyze"
    /\ Len(asegments) < MaxAnalyzed
    /\ \E segment \in SentimentSegments :
        /\ asegments' = Append(asegments, segment)
        /\ IF SegmentRaises(segment, nlp)
           THEN apc' = "raised" /\ results' = results
           ELSE /\ apc' = apc
                /\ results' =
                     Append(results, SegmentResult(segment, volume_lookup, nlp))
    /\ UNCHANGED <<nlp, volume_lookup, evars, mvars, pvars, svars, tvars,
                   qvars, ivars, vvars>>

\* return results
ReturnResults ==
    /\ apc = "analyze"
    /\ apc' = "done"
    /\ UNCHANGED <<nlp, volume_lookup, asegments, results, evars, mvars,
                   pvars, svars, tvars, qvars, ivars, vvars>>

InitSentiment ==
    SentimentInit /\ EventsIdle /\ MatchIdle /\ PeaksIdle /\ SummaryIdle
        /\ TimelineIdle /\ MomentsIdle /\ IntensityIdle /\ VolumeIdle
NextSentiment == BuildLookup \/ StartAnalysis \/ AnalyzeSegment \/ ReturnResults
SpecSentiment == InitSentiment /\ [][NextSentiment]_vars

(***************************************************************************)
(* calculate_intensity on one text, with the spaCy model loaded or not.    *)
(***************************************************************************)
MaxCues == 3

\* phrases the scorer is exercised on: shouted and quiet words, marks,
\* linguistic cues, upper case without a run of three letters
Cues ==
    { <<Up("goal"), W("!")>>, <<W("!")>>, <<W("?")>>,
      <<W("so"), W("close")>>, <<Cap("what"), W("a"), W("strike")>>,
      <<W("is"), W("it"), W("in")>>, <<W("good"), W("shots")>>,
      <<W("brilliant")>>, <<Up("oh"), Up("no")>> }

RECURSIVE CueTexts(_)
CueTexts(n) ==
    IF n = 0 THEN {<<>>}
    ELSE LET shorter == CueTexts(n - 1)
         IN  shorter \cup {t \o c : t \in shorter, c \in Cues}

IntensityTexts == CueTexts(MaxCues) \cup {TxGoalShout, TxFoul}

IntensityInit ==
    /\ itext \in IntensityTexts
    /\ ihandle \in {"loaded", "none"}
    /\ iscore = 0
    /\ ipc = "call"

\* calculate_intensity(text)
Score ==
    /\ ipc = "call"
    /\ iscore' = CalculateIntensity(itext, ihandle)
    /\ ipc' = "done"
    /\ UNCHANGED <<itext, ihandle, evars, mvars, avars, pvars, svars, tvars,
                   qvars, vvars>>

InitIntensity ==
    IntensityInit /\ EventsIdle /\ MatchIdle /\ SentimentIdle /\ PeaksIdle
        /\ SummaryIdle /\ TimelineIdle /\ MomentsIdle /\ VolumeIdle
NextIntensity == Score
SpecIntensity == InitIntensity /\ [][NextIntensity]_vars

(***************************************************************************)
(* detect_volume_peaks                                                     *)
(***************************************************************************)
\* threshold and min_gap_seconds the function is called with
Thresholds == {(6 * Unit) \div 10, (7 * Unit) \div 10}
MinGaps == {0, (5 * TicksPerSecond) \div 2, 10 * TicksPerSecond}

\* loudness of one window, as get_volume_timeline reports it
TimelineVolumes == {(5 * Unit) \div 10, (7 * Unit) \div 10}

\* get_volume_timeline(audio_path, window_seconds=1.0): point k (from 0) is
\* at k seconds
PointTime(k) == k * TicksPerSecond

\* if point["volume"] >= threshold: if point["time"] - last_peak_time >= min_gap_seconds
\* variant: the gap to the last peak must be exceeded
IsPeakStrictGap(point, thr, gap, last) ==
    /\ point.volume >= thr
    /\ point.time - last > gap
\* variant: the gap to the last peak is not tested
IsPeakNoGap(point, thr, gap, last) == point.volume >= thr
IsPeak(point, thr, gap, last) ==
    /\ point.volume >= thr
    /\ point.time - last >= gap

\* the loop over a whole timeline, from last_peak_time = last and the peaks
\* found so far
RECURSIVE PeaksFrom(_, _, _, _, _)
PeaksFrom(points, thr, gap, last, found) ==
    IF points = <<>> THEN found
    ELSE IF IsPeak(Head(points), thr, gap, last)
         THEN PeaksFrom(Tail(points), thr, gap, Head(points).time,
                        Append(found, [time |-> Head(points).time,
                                       volume |-> Head(points).volume,
                                       type |-> "high_volume_moment"]))
    ELSE PeaksFrom(Tail(points), thr, gap, last, found)

\* last_peak_time = -min_gap_seconds, then the loop
DetectVolumePeaks(points, thr, gap) == PeaksFrom(points, thr, gap, -gap, <<>>)

PeaksInit ==
    /\ threshold \in Thresholds
    /\ min_gap_seconds \in MinGaps
    /\ timeline = <<>>
    /\ peaks = <<>>
    /\ last_peak_time = -min_gap_seconds
    /\ ppc = "scan"

\* one iteration of "for point in timeline": the next window of the
\* recording has any loudness
ScanPoint ==
    /\ ppc = "scan"
    /\ Len(timeline) < MaxSamples
    /\ \E volume \in TimelineVolumes :
        LET point == [time |-> PointTime(Len(timeline)), volume |-> volume]
        IN  /\ timeline' = Append(timeline, point)
            /\ IF IsPeak(point, threshold, min_gap_seconds, last_peak_time)
               THEN /\ peaks' = Append(peaks,
                                   [time |-> point.time, volume |-> point.volume,
                                    type |-> "high_volume_moment"])
                    /\ last_peak_time' = point.time
               ELSE UNCHANGED <<peaks, last_peak_time>>
    /\ UNCHANGED <<threshold, min_gap_seconds, ppc, evars, mvars, avars,
                   svars, tvars, qvars, ivars, vvars>>

\* return peaks
ReturnPeaks ==
    /\ ppc = "scan"
    /\ ppc' = "done"
    /\ UNCHANGED <<threshold, min_gap_seconds, timeline, peaks, last_peak_time,
                   evars, mvars, avars, svars, tvars, qvars, ivars, vvars>>

InitPeaks ==
    PeaksInit /\ EventsIdle /\ MatchIdle /\ SentimentIdle /\ SummaryIdle
        /\ TimelineIdle /\ MomentsIdle /\ IntensityIdle /\ VolumeIdle
NextPeaks == ScanPoint \/ ReturnPeaks
SpecPeaks == InitPeaks /\ [][NextPeaks]_vars

(***************************************************************************)
(* get_intensity_summary                                                   *)
(***************************************************************************)
\* round(num / den, n), the step in units of num / den
RoundRatio(num, den, step) ==
    LET q == num \div (den * step)
        r == num % (den * step)
    IN  IF 2 * r < den * step THEN q * step
        ELSE IF 2 * r > den * step THEN (q + 1) * step
        ELSE IF q % 2 = 0 THEN q * step
        ELSE (q + 1) * step

RECURSIVE SumIntensity(_)
SumIntensity(records) ==
    IF records = <<>> THEN 0
    ELSE Head(records).intensity + SumIntensity(Tail(records))

\* max(analyzed, key=lambda x: x["intensity"]): the first record of the
\* highest intensity
PeakRecord(records) ==
    LET k == CHOOSE k \in DOMAIN records :
                /\ \A h \in DOMAIN records :
                      records[h].intensity <= records[k].intensity
                /\ \A h \in 1..(k - 1) :
                      records[h].intensity < records[k].intensity
    IN  records[k]

Distributions(records) ==
    [mood_distribution |->
        [m \in {"exciting", "moderate", "calm"} |->
            Cardinality({i \in DOMAIN records : records[i].mood = m})],
     sentiment_distribution |->
        [l \in {"very_exciting", "exciting", "tense", "moderate", "calm"} |->
            Cardinality({i \in DOMAIN records :
                            Get(records[i], "sentiment", "calm") = l})]]

\* variant: the "if total > 0" and "if analyzed" guards are missing
GetIntensitySummaryUnguarded(records) ==
    IF records = <<>> THEN [raised |-> "ZeroDivisionError"]
    ELSE LET total == Len(records)
             d == Distributions(records)
         IN  [average_intensity |->
                  RoundRatio(SumIntensity(records), total, Unit \div 100),
              peak_intensity |-> Round2(PeakRecord(records).intensity),
              peak_moment_time |-> PeakRecord(records).time,
              mood_distribution |-> d.mood_distribution,
              sentiment_distribution |-> d.sentiment_distribution,
              total_segments |-> total,
              exciting_percentage |->
                  RoundRatio(d.mood_distribution["exciting"] * 1000, total, 1)]

\* scores in units of 1/Unit, exciting_percentage in tenths of a percent
GetIntensitySummary(records) ==
    LET total == Len(records)
        d == Distributions(records)
    IN  [average_intensity |->
             IF total > 0
             THEN RoundRatio(SumIntensity(records), total, Unit \div 100)
             ELSE 0,
         peak_intensity |->
             IF records # <<>> THEN Round2(PeakRecord(records).intensity) ELSE 0,
         peak_moment_time |->
             IF records # <<>> THEN PeakRecord(records).time ELSE 0,
         mood_distribution |-> d.mood_distribution,
         sentiment_distribution |-> d.sentiment_distribution,
         total_segments |-> total,
         exciting_percentage |->
             IF total > 0
             THEN RoundRatio(d.mood_distribution["exciting"] * 1000, total, 1)
             ELSE 0]

\* records as analyze_sentiment builds them (the fields the summary reads),
\* and one without a sentiment
SummaryIntensities ==
    {0, (25 * Unit) \div 100, (55 * Unit) \div 100, (65 * Unit) \div 100, Unit}

SummaryRecords ==
    { [time |-> t, intensity |-> x, mood |-> ClassifyMoment(x),
       sentiment |-> GetSentimentLabel(x, ts)] :
          t \in {0, 4 * TicksPerSecond}, x \in SummaryIntensities,
          ts \in {0, Unit \div 2} }
    \cup { [time |-> TicksPerSecond, intensity |-> (65 * Unit) \div 100,
            mood |-> "exciting"] }

SummaryInit ==
    /\ analyzed = <<>>
    /\ summary = <<>>
    /\ spc = "input"

\* the caller's list grows by one record
AddRecord ==
    /\ spc = "input"
    /\ Len(analyzed) < MaxRecords
    /\ \E r \in SummaryRecords : analyzed' = Append(analyzed, r)
    /\ UNCHANGED <<summary, spc, evars, mvars, avars, pvars, tvars, qvars,
                   ivars, vvars>>

\* get_intensity_summary(analyzed)
Summarize ==
    /\ spc = "input"
    /\ summary' = GetIntensitySummary(analyzed)
    /\ spc' = "done"
    /\ UNCHANGED <<analyzed, evars, mvars, avars, pvars, tvars, qvars, ivars,
                   vvars>>

InitSummary ==
    SummaryInit /\ EventsIdle /\ MatchIdle /\ SentimentIdle /\ PeaksIdle
        /\ TimelineIdle /\ MomentsIdle /\ IntensityIdle /\ VolumeIdle
NextSummary == AddRecord \/ Summarize
SpecSummary == InitSummary /\ [][NextSummary]_vars

(***************************************************************************)
(* get_exciting_moments, get_peak_moments                                  *)
(***************************************************************************)
\* [m for m in analyzed if m["intensity"] >= threshold]
RECURSIVE GetExcitingMoments(_, _)
GetExcitingMoments(records, thr) ==
    IF records = <<>> THEN <<>>
    ELSE (IF Head(records).intensity >= thr THEN <<Head(records)>> ELSE <<>>)
         \o GetExcitingMoments(Tail(records), thr)

\* variant: a record goes in front of the placed records of its intensity
InsertBeforeEqual(placed, record) ==
    LET n == Cardinality({i \in DOMAIN placed :
                             placed[i].intensity > record.intensity})
    IN  SubSeq(placed, 1, n) \o <<record>> \o SubSeq(placed, n + 1, Len(placed))

\* sorted(analyzed, key=lambda x: x["intensity"], reverse=True): a stable
\* sort, a record goes behind the placed records that are not less intense
InsertByIntensity(placed, record) ==
    LET n == Cardinality({i \in DOMAIN placed :
                             placed[i].intensity >= record.intensity})
    IN  SubSeq(placed, 1, n) \o <<record>> \o SubSeq(placed, n + 1, Len(placed))

RECURSIVE SortedByIntensityFrom(_, _)
SortedByIntensityFrom(records, placed) ==
    IF records = <<>> THEN placed
    ELSE SortedByIntensityFrom(Tail(records),
                               InsertByIntensity(placed, Head(records)))

\* sorted_moments[:top_n], for top_n >= 0
GetPeakMoments(records, n) ==
    LET sorted_moments == SortedByIntensityFrom(records, <<>>)
    IN  SubSeq(sorted_moments, 1, Min(n, Len(sorted_moments)))

\* records of three intensities at two times, as analyze_sentiment builds
\* them (the fields the two functions read or that tell records apart)
MomentRecords ==
    { [time |-> t, intensity |-> x, mood |-> ClassifyMoment(x)] :
          t \in {0, 4 * TicksPerSecond},
          x \in {(25 * Unit) \div 100, (55 * Unit) \div 100,
                 (65 * Unit) \div 100} }

\* the arguments of the calls
TopNs == 0..(MaxRecords + 1)
ExcitingThresholds == {(5 * Unit) \div 10, (6 * Unit) \div 10}

MomentsInit ==
    /\ analyzed = <<>>
    /\ top_n = 0
    /\ ithreshold = 0
    /\ moments = <<>>
    /\ exciting = <<>>
    /\ qpc = "input"

\* the caller's list of records grows by one
AddMoment ==
    /\ qpc = "input"
    /\ Len(analyzed) < MaxRecords
    /\ \E r \in MomentRecords : analyzed' = Append(analyzed, r)
    /\ UNCHANGED <<summary, spc, top_n, ithreshold, moments, exciting, qpc,
                   evars, mvars, avars, pvars, tvars, ivars, vvars>>

\* get_exciting_moments(analyzed, threshold)
ExcitingMoments ==
    /\ qpc = "input"
    /\ \E thr \in ExcitingThresholds :
        /\ ithreshold' = thr
        /\ exciting' = GetExcitingMoments(analyzed, thr)
    /\ qpc' = "exciting"
    /\ UNCHANGED <<top_n, moments, svars, evars, mvars, avars, pvars, tvars,
                   ivars, vvars>>

\* get_peak_moments(analyzed, top_n)
PeakMoments ==
    /\ qpc = "exciting"
    /\ \E n \in TopNs :
        /\ top_n' = n
        /\ moments' = GetPeakMoments(analyzed, n)
    /\ qpc' = "done"
    /\ UNCHANGED <<ithreshold, exciting, svars, evars, mvars, avars, pvars,
                   tvars, ivars, vvars>>

InitMoments ==
    MomentsInit /\ summary = <<>> /\ spc = "idle" /\ EventsIdle /\ MatchIdle
        /\ SentimentIdle /\ PeaksIdle /\ TimelineIdle /\ IntensityIdle /\ VolumeIdle
NextMoments == AddMoment \/ ExcitingMoments \/ PeakMoments
SpecMoments == InitMoments /\ [][NextMoments]_vars

(***************************************************************************)
(* generate_event_timeline                                                 *)
(***************************************************************************)
MaxEvents == 3

\* number of characters of the first n tokens of a text: a word token is
\* preceded by one space unless it opens the text or follows a blank
RECURSIVE CharsUpTo(_, _)
CharsUpTo(text, n) ==
    IF n = 0 THEN 0
    ELSE CharsUpTo(text, n - 1)
         + (IF text[n].w \in {"!", "?", ".", " "} THEN 1
            ELSE Letters(text[n].w)
                 + (IF n > 1 /\ text[n - 1].w # " " THEN 1 ELSE 0))

\* text[:100], for a text whose 100th character ends a token (or that is
\* shorter): the longest prefix of tokens within 100 characters
Description(text) ==
    LET fit == {n \in 0..Len(text) : CharsUpTo(text, n) <= 100}
        n == CHOOSE n \in fit : \A m \in fit : m <= n
    IN  SubSeq(text, 1, n)

\* key=lambda x: x.get("time", 0)
TimeKey(event) == Get(event, "time", 0)

\* sorted(events, key=...): a stable sort, an element goes behind the
\* elements already placed whose key is not greater
InsertByTime(placed, event) ==
    LET n == Cardinality({i \in DOMAIN placed :
                             TimeKey(placed[i]) <= TimeKey(event)})
    IN  SubSeq(placed, 1, n) \o <<event>> \o SubSeq(placed, n + 1, Len(placed))

RECURSIVE SortedFrom(_, _)
SortedFrom(evs, placed) ==
    IF evs = <<>> THEN placed
    ELSE SortedFrom(Tail(evs), InsertByTime(placed, Head(evs)))

\* variant: the events are taken in input order
InInputOrder(evs) == evs
SortedByTime(evs) == SortedFrom(evs, <<>>)

\* the entry appended for one event; minute = int(time // 60)
TimelineEntry(event) ==
    [time |-> RoundTime1(Get(event, "time", 0)),
     minute |-> Get(event, "time", 0) \div (60 * TicksPerSecond),
     type |-> Get(event, "type", "unknown"),
     description |-> Description(Get(event, "text", <<>>))]

GenerateEventTimeline(evs) ==
    LET sorted == SortedByTime(evs)
    IN  [i \in DOMAIN sorted |-> TimelineEntry(sorted[i])]

\* a commentary line of 107 characters, the 100th closing the word "a"
TxLongCall == [i \in 1..33 |-> W("on")] \o <<W("a"), W("foul"), W("!")>>

\* event times: -5 s, 59.96 s, 60.04 s, 125.25 s
TimelineTimes == {-5 * TicksPerSecond, 5996, 6004, 12525}

\* events as the detector builds them, and events lacking a key
TimelineEvents ==
    [type : {"goal", "foul"}, text : {TxFoul}, time : TimelineTimes]
        \cup {[type |-> "foul", text |-> TxLongCall, time |-> 8 * TicksPerSecond],
              [type |-> "goal", text |-> TxFoul],
              [time |-> 8 * TicksPerSecond]}

TimelineInit ==
    /\ tevents = <<>>
    /\ etimeline = <<>>
    /\ tpc = "input"

\* the caller's event list grows by one event
AddEvent ==
    /\ tpc = "input"
    /\ Len(tevents) < MaxEvents
    /\ \E event \in TimelineEvents : tevents' = Append(tevents, event)
    /\ UNCHANGED <<etimeline, tpc, evars, mvars, avars, pvars, svars, qvars,
                   ivars, vvars>>

\* generate_event_timeline(events)
GenerateTimeline ==
    /\ tpc = "input"
    /\ etimeline' = GenerateEventTimeline(tevents)
    /\ tpc' = "done"
    /\ UNCHANGED <<tevents, evars, mvars, avars, pvars, svars, qvars, ivars,
                   vvars>>

InitTimeline ==
    TimelineInit /\ EventsIdle /\ MatchIdle /\ SentimentIdle /\ PeaksIdle
        /\ SummaryIdle /\ MomentsIdle /\ IntensityIdle /\ VolumeIdle
NextTimeline == AddEvent \/ GenerateTimeline
SpecTimeline == InitTimeline /\ [][NextTimeline]_vars

(***************************************************************************)
(* get_volume_for_segments.  A recording is a sequence of amplitudes, in   *)
(* units of half the full scale.                                           *)
(***************************************************************************)
MaxAudio == 3
MaxMeasured == 2

\* int(x) of the quotient num / den, den > 0: cut towards zero
ToInt(num, den) == IF num >= 0 THEN num \div den ELSE -((-num) \div den)

\* round(scale * min(sqrt(num / den), 1.0)), den > 0
ScaledRoot(scale, num, den) ==
    IF num >= den THEN scale
    ELSE CHOOSE r \in 0..scale :
            /\ (2 * r - 1) * (2 * r - 1) * den <= 4 * scale * scale * num
                  \/ r = 0
            /\ 4 * scale * scale * num < (2 * r + 1) * (2 * r + 1) * den

RECURSIVE SumSquares(_)
SumSquares(chunk) ==
    IF chunk = <<>> THEN 0
    ELSE Head(chunk) * Head(chunk) + SumSquares(Tail(chunk))

\* calculate_peak: np.max(np.abs(chunk)), chunk not empty
CalculatePeak(chunk) ==
    CHOOSE a \in {Abs(chunk[i]) : i \in DOMAIN chunk} :
        \A i \in DOMAIN chunk : Abs(chunk[i]) <= a

\* start_idx = max(0, min(int(start_time * sample_rate), len(audio_data) - 1))
StartIdx(start_time, rate, n) ==
    Max(0, Min(ToInt(start_time * rate, TicksPerSecond), n - 1))

\* variant: the range is not widened to at least one sample
EndIdxNotWidened(start, end_time, rate, n) ==
    Min(ToInt(end_time * rate, TicksPerSecond), n)
\* end_idx = max(start_idx + 1, min(int(end_time * sample_rate), len(audio_data)))
EndIdx(start, end_time, rate, n) ==
    Max(start + 1, Min(ToInt(end_time * rate, TicksPerSecond), n))

\* the three metrics of a chunk, rounded to 3 decimals, against the global
\* statistics of the recording: rms / (global_rms * 2) and peak /
\* global_peak, each at most 1, and 0.7 * rms + 0.3 * peak; all 0 for an
\* empty chunk
Metrics(chunk, audio) ==
    LET milli == Unit \div 1000
        global_sq == SumSquares(audio)
        global_peak == CalculatePeak(audio)
        \* (rms / (2 * global_rms)) ^ 2 = rms_num / rms_den
        rms_num == SumSquares(chunk) * Len(audio)
        rms_den == 4 * Len(chunk) * global_sq
        peak_milli ==
            IF global_peak > 0
            THEN Min((1000 * CalculatePeak(chunk)) \div global_peak, 1000)
            ELSE 0
    IN  IF chunk = <<>>
        THEN [rms |-> 0, peak |-> 0, volume_score |-> 0]
        ELSE [rms |->
                  IF global_sq > 0
                  THEN milli * ScaledRoot(1000, rms_num, rms_den) ELSE 0,
              peak |-> milli * peak_milli,
              volume_score |->
                  milli * ((IF global_sq > 0
                            THEN ScaledRoot(700, rms_num, rms_den) ELSE 0)
                           + (3 * peak_milli) \div 10)]

\* results.append({**segment, "rms": ..., "peak": ..., "volume_score": ...})
WithMetrics(segment, m) ==
    [k \in DOMAIN segment \cup {"rms", "peak", "volume_score"} |->
        IF k \in {"rms", "peak", "volume_score"} THEN m[k] ELSE segment[k]]

\* recordings of n samples: silence, an even level, a burst at the start,
\* a burst at the end
Recordings(n) ==
    { [i \in 1..n |-> 0], [i \in 1..n |-> 1],
      [i \in 1..n |-> IF i = 1 THEN -2 ELSE 1],
      [i \in 1..n |-> IF i = n THEN 2 ELSE 0] }

\* samples per second
SampleRates == {1, 2}

\* segments: start missing, before the recording, inside it, probably past
\* its end; end missing, before the start, inside the recording
VolumeSegments ==
    LET starts == {(-3 * TicksPerSecond) \div 2, TicksPerSecond \div 2,
                   2 * TicksPerSecond}
        ends == {0, TicksPerSecond}
    IN  [start : starts, end : ends] \cup [start : starts] \cup [end : ends]
            \cup {[text |-> TxFoul]}

\* sample_rate, audio_data = load_audio(audio_path); results = []
VolumeInit ==
    /\ sample_rate \in SampleRates
    /\ \E n \in 1..MaxAudio : audio_data \in Recordings(n)
    /\ vsegments = <<>>
    /\ vresults = <<>>
    /\ start_idx = 0
    /\ end_idx = 0
    /\ vbranch = "none"
    /\ vpc = "loop"

\* one iteration of "for segment in segments"
MeasureSegment ==
    /\ vpc = "loop"
    /\ Len(vsegments) < MaxMeasured
    /\ \E segment \in VolumeSegments :
        LET start_time == Get(segment, "start", 0)
            end_time == Get(segment, "end", start_time + 5 * TicksPerSecond)
            s == StartIdx(start_time, sample_rate, Len(audio_data))
            e == EndIdx(s, end_time, sample_rate, Len(audio_data))
            chunk == SubSeq(audio_data, s + 1, e)
        IN  /\ vsegments' = Append(vsegments, segment)
            /\ start_idx' = s
            /\ end_idx' = e
            /\ vbranch' = IF Len(chunk) > 0 THEN "measured" ELSE "default"
            /\ vresults' =
                  Append(vresults, WithMetrics(segment, Metrics(chunk, audio_data)))
    /\ UNCHANGED <<sample_rate, audio_data, vpc, evars, mvars, avars, pvars,
                   svars, tvars, qvars, ivars>>

\* return results
ReturnVolumes ==
    /\ vpc = "loop"
    /\ vpc' = "done"
    /\ UNCHANGED <<sample_rate, audio_data, vsegments, vresults, start_idx,
                   end_idx, vbranch, evars, mvars, avars, pvars, svars, tvars,
                   qvars, ivars>>

InitVolume ==
    VolumeInit /\ EventsIdle /\ MatchIdle /\ SentimentIdle /\ PeaksIdle
        /\ SummaryIdle /\ TimelineIdle /\ MomentsIdle /\ IntensityIdle
NextVolume == MeasureSegment \/ ReturnVolumes
SpecVolume == InitVolume /\ [][NextVolume]_vars

(***************************************************************************)
(* Properties of detect_events_with_timestamps.                            *)
(***************************************************************************)
WindowSeconds(type) == IF type = "goal" THEN 15 ELSE 10

\* C1: in the returned list, two distinct events of the same type are at
\* least one window apart (15 s for goal, 10 s otherwise), whatever the
\* time order of the segments.
C1_WindowApart ==
    epc = "done" =>
        \A i, j \in DOMAIN deduplicated :
            (i # j /\ deduplicated[i].type = deduplicated[j].type) =>
                Abs(deduplicated[i].time - deduplicated[j].time)
                    >= WindowSeconds(deduplicated[i].type) * TicksPerSecond

\* segments out of time order, a candidate dropped, two events of one type
\* returned
C1_Witness ==
    /\ epc = "done"
    /\ \E i, j \in DOMAIN segments : i < j /\ segments[i].start > segments[j].start
    /\ Len(deduplicated) < Len(events)
    /\ \E i, j \in DOMAIN deduplicated :
          i # j /\ deduplicated[i].type = deduplicated[j].type

\* per sample text, the categories whose rule set matches it
MatchingOf == [t \in EventTexts |-> Matching(t)]

SameEvent(a, b) == a = b
FromSegment(e, seg) ==
    /\ e.time = seg.start
    /\ e.text = Strip(seg.text)
    /\ e.type \in MatchingOf[seg.text]

\* s is a subsequence of t: its elements are elements of t, in t's order,
\* each element of t used at most once
RECURSIVE IsSubsequence(_, _)
IsSubsequence(s, t) ==
    IF s = <<>> THEN TRUE
    ELSE IF t = <<>> THEN FALSE
    ELSE IF SameEvent(Head(s), Head(t)) THEN IsSubsequence(Tail(s), Tail(t))
    ELSE IsSubsequence(s, Tail(t))

\* the events es come from segments of segs, in the order of segs, each
\* segment giving at most one of them
RECURSIVE InSegmentOrder(_, _)
InSegmentOrder(es, segs) ==
    IF es = <<>> THEN TRUE
    ELSE IF segs = <<>> THEN FALSE
    ELSE IF FromSegment(Head(es), Head(segs))
         THEN InSegmentOrder(Tail(es), Tail(segs))
    ELSE InSegmentOrder(es, Tail(segs))

\* C2: the returned list is an order-preserving subsequence of the raw
\* candidates (nothing reordered, duplicated or altered), and the raw
\* candidates follow the order of the segments.
C2_Subsequence ==
    /\ InSegmentOrder(events, segments)
    /\ epc \in {"dedup", "done"} => IsSubsequence(deduplicated, events)

\* a candidate in the middle of the list was dropped and later ones kept
C2_Witness ==
    /\ epc = "done"
    /\ Len(events) = 3
    /\ deduplicated = <<events[1], events[3]>>
    /\ events[2] # events[1]

\* C3: each segment yields at most one event: there are exactly as many raw
\* candidates as segments whose text matches some category, however many
\* categories it matches, and no more returned events than candidates.
C3_AtMostOnePerSegment ==
    /\ Len(events) =
         Cardinality({i \in DOMAIN segments : MatchingOf[segments[i].text] # {}})
    /\ Len(events) <= Len(segments)
    /\ Len(deduplicated) <= Len(events)

\* a segment matching two categories and a segment matching none were read
C3_Witness ==
    /\ epc = "done"
    /\ \E i \in DOMAIN segments : Cardinality(MatchingOf[segments[i].text]) >= 2
    /\ \E i \in DOMAIN segments : MatchingOf[segments[i].text] = {}
    /\ Len(events) = 2

TypeRank(type) == CHOOSE k \in DOMAIN EventTypes : EventTypes[k] = type

\* C4: the type chosen for a text is the first, in the order goal, foul,
\* yellow_card, red_card, offside, substitution, injury, of the categories
\* whose rule set matches it; a text matching none yields no event.
C4_FirstInPriority ==
    mpc = "done" =>
        IF Matching(mtext) = {} THEN mtype = "none"
        ELSE /\ mtype \in Matching(mtext)
             /\ \A t \in Matching(mtext) : TypeRank(mtype) <= TypeRank(t)

\* a text matching three categories, none of them goal, classified
C4_Witness ==
    /\ mpc = "done"
    /\ Cardinality(Matching(mtext)) = 3
    /\ mtype = "foul"

\* C5: the deduplication pass applied to a returned list returns that list.
C5_Idempotent ==
    epc = "done" => Deduplicate(deduplicated) = deduplicated

\* the first pass dropped a candidate and returned several events of a type
C5_Witness ==
    /\ epc = "done"
    /\ Len(deduplicated) < Len(events)
    /\ \E i, j \in DOMAIN deduplicated :
          i < j /\ deduplicated[i].type = deduplicated[j].type
                /\ deduplicated[i].time > deduplicated[j].time

(***************************************************************************)
(* Properties of analyze_sentiment.                                        *)
(***************************************************************************)
\* C6: every intensity stored in a record lies in [0, 1], on the text-only
\* path and on the text+volume path, whichever terms and bonus fire.
C6_IntensityInRange ==
    \A i \in DOMAIN results :
        0 <= results[i].intensity /\ results[i].intensity <= Unit

\* a fused record (volume 1.0, bonus fired) and a text-only record whose
\* cue terms sum to more than 1, both stored with intensity 1
C6_Witness ==
    \E i, j \in DOMAIN results :
        /\ "audio_features" \in DOMAIN results[i]
        /\ results[i].audio_features.volume_score = Unit
        /\ results[i].intensity = Unit
        /\ "audio_features" \notin DOMAIN results[j]
        /\ results[j].text = TxGoalShout
        /\ results[j].intensity = Unit

\* C7: with the nlp handle None, analyze_sentiment does not fail and returns
\* one record per segment, with excitement_score and tension_score 0.
C7_NoFailureWithoutNlp ==
    nlp = "none" =>
        /\ apc # "raised"
        /\ apc = "done" =>
            /\ Len(results) = Len(asegments)
            /\ \A i \in DOMAIN results :
                /\ results[i].linguistic_features.excitement_score = 0
                /\ results[i].linguistic_features.tension_score = 0

\* the labels as functions of an intensity and a tension score
MoodFor(intensity) ==
    CASE 10 * intensity >= 6 * Unit -> "exciting"
      [] 10 * intensity >= 3 * Unit /\ 10 * intensity < 6 * Unit -> "moderate"
      [] OTHER -> "calm"

SentimentFor(intensity, tension) ==
    CASE 10 * intensity >= 7 * Unit -> "very_exciting"
      [] 10 * intensity < 7 * Unit /\ 10 * intensity >= 5 * Unit
            /\ 10 * tension > 3 * Unit -> "tense"
      [] 10 * intensity < 7 * Unit /\ 10 * intensity >= 5 * Unit
            /\ 10 * tension <= 3 * Unit -> "exciting"
      [] 10 * intensity < 5 * Unit /\ 10 * intensity >= 3 * Unit -> "moderate"
      [] OTHER -> "calm"

\* per sample text, the tension score of its analysis (not rounded)
TensionOf ==
    [t \in SentimentTexts \cup {<<>>} |->
        AnalyzeWithSpacy(t, "loaded").tension_score]

\* C9 as stated: every record carries the mood of its intensity and the
\* sentiment of its intensity and of the tension_score it stores.
C9_LabelsOfStoredScores ==
    \A i \in DOMAIN results :
        /\ results[i].mood = MoodFor(results[i].intensity)
        /\ results[i].sentiment =
             SentimentFor(results[i].intensity,
                          results[i].linguistic_features.tension_score)

\* C9 (amended): every record carries the mood of its intensity (exciting
\* iff >= 0.6, moderate iff in [0.3, 0.6), else calm) and the sentiment of
\* its intensity and of the unrounded tension score of its segment's
\* analysis (very_exciting iff >= 0.7, else tense iff >= 0.5 and tension >
\* 0.3, else exciting iff >= 0.5, else moderate iff >= 0.3, else calm).
C9_LabelsOfAnalysis ==
    \A i \in DOMAIN results :
        /\ results[i].mood = MoodFor(results[i].intensity)
        /\ results[i].sentiment =
             SentimentFor(results[i].intensity,
                          TensionOf[Get(asegments[i], "text", <<>>)])

\* a record labelled tense whose stored tension_score is 0.30, beside a
\* very_exciting and a calm record
C9_Witness ==
    /\ apc = "done"
    /\ \E i \in DOMAIN results :
          /\ results[i].sentiment = "tense"
          /\ results[i].mood = "exciting"
          /\ results[i].linguistic_features.tension_score = (3 * Unit) \div 10
    /\ \E i \in DOMAIN results : results[i].sentiment = "calm"

(***************************************************************************)
(* Properties of detect_volume_peaks.                                      *)
(***************************************************************************)
\* C8: two returned peaks, the first before the second, are at least
\* min_gap_seconds apart, and every returned peak is at or above threshold.
C8_PeaksApart ==
    /\ \A i, j \in DOMAIN peaks :
          i < j => peaks[j].time - peaks[i].time >= min_gap_seconds
    /\ \A i \in DOMAIN peaks : peaks[i].volume >= threshold

\* with a gap of 10 s: a peak at 0 s, loud windows suppressed after it, and
\* a second peak at 10 s
C8_Witness ==
    /\ ppc = "done"
    /\ min_gap_seconds = 10 * TicksPerSecond
    /\ Len(peaks) = 2
    /\ peaks[1].time = 0
    /\ peaks[2].time = 10 * TicksPerSecond
    /\ \E k \in DOMAIN timeline :
          /\ timeline[k].volume >= threshold
          /\ \A i \in DOMAIN peaks : peaks[i].time # timeline[k].time

(***************************************************************************)
(* Properties of get_intensity_summary.                                    *)
(***************************************************************************)
\* C10: the summary of an empty list is returned without error, with
\* average_intensity, peak_intensity, peak_moment_time, total_segments and
\* exciting_percentage 0 and every mood and sentiment count 0.
C10_EmptySummary ==
    (spc = "done" /\ analyzed = <<>>) =>
        summary =
            [average_intensity |-> 0, peak_intensity |-> 0,
             peak_moment_time |-> 0, total_segments |-> 0,
             exciting_percentage |-> 0,
             mood_distribution |->
                 [m \in {"exciting", "moderate", "calm"} |-> 0],
             sentiment_distribution |->
                 [l \in {"very_exciting", "exciting", "tense", "moderate",
                         "calm"} |-> 0]]

\* the summary of the empty list was computed
C10_Witness ==
    /\ spc = "done"
    /\ analyzed = <<>>
    /\ DOMAIN summary # {}
    /\ summary.total_segments = 0

(***************************************************************************)
(* Properties of generate_event_timeline.                                  *)
(***************************************************************************)
\* the bijections between the positions of two lists of length n
Bijections(n) ==
    {p \in [1..n -> 1..n] : \A i, j \in 1..n : i # j => p[i] # p[j]}

\* m is the floor of t / 60 s
IsMinuteOf(m, t) ==
    m * 60 * TicksPerSecond <= t /\ t < (m + 1) * 60 * TicksPerSecond

\* C11: the timeline has exactly one entry per input event (entry i made
\* from event p[i] for a bijection p), the times of consecutive entries are
\* non-decreasing, and the minute of an entry is the floor of its event's
\* time divided by 60.
C11_TimelineOrdered ==
    tpc = "done" =>
        /\ Len(etimeline) = Len(tevents)
        /\ \A i \in 1..(Len(etimeline) - 1) :
              etimeline[i].time <= etimeline[i + 1].time
        /\ \E p \in Bijections(Len(tevents)) :
              \A i \in DOMAIN etimeline :
                  /\ etimeline[i].type = Get(tevents[p[i]], "type", "unknown")
                  /\ IsMinuteOf(etimeline[i].minute, Get(tevents[p[i]], "time", 0))
                  /\ Abs(etimeline[i].time - Get(tevents[p[i]], "time", 0))
                        <= TicksPerSecond \div 20

\* three events given latest first, one before 0 s and one at 59.96 s
\* (entry time 60.0, minute 0)
C11_Witness ==
    /\ tpc = "done"
    /\ Len(tevents) = 3
    /\ TimeKey(tevents[1]) > TimeKey(tevents[2])
    /\ TimeKey(tevents[2]) > TimeKey(tevents[3])
    /\ etimeline[1].minute = -1
    /\ etimeline[2].time = 60 * TicksPerSecond
    /\ etimeline[2].minute = 0

(***************************************************************************)
(* Properties of the fusion of text and loudness in analyze_sentiment.     *)
(***************************************************************************)
\* per sample text, its text-only intensity
TextIntensityOf ==
    [t \in SentimentTexts \cup {<<>>} |-> CalculateIntensity(t, "loaded")]

\* the lookup has an entry above 0 for the start time rounded to 0.1 s
HasVolume(segment) ==
    LET key == RoundTime1(Get(segment, "start", 0))
    IN  key \in DOMAIN volume_lookup /\ volume_lookup[key] > 0

\* round(min(ti * 0.6 + v * 0.4 + (0.1 if ti > 0.5 and v > 0.5 else 0), 1.0), 2)
Fused(ti, v) ==
    LET bonus == IF 2 * ti > Unit /\ 2 * v > Unit THEN Unit ELSE 0
    IN  RoundRatio(Min(6 * ti + 4 * v + bonus, 10 * Unit), 10, Unit \div 100)

\* C12: a record's intensity is the fused value of its text intensity and
\* its volume score when the lookup has an entry above 0 for the segment's
\* start rounded to one decimal, and otherwise (no entry, or an entry of
\* exactly 0) it is exactly the text-only intensity.
C12_FusedIffVolume ==
    \A i \in DOMAIN results :
        LET ti == TextIntensityOf[Get(asegments[i], "text", <<>>)]
            key == RoundTime1(Get(asegments[i], "start", 0))
        IN  IF HasVolume(asegments[i])
            THEN results[i].intensity = Fused(ti, volume_lookup[key])
            ELSE results[i].intensity = ti

\* a segment starting at 0.04 s fused with the entry of key 0.0 and given
\* the bonus, its intensity differing from the text-only one, and a segment
\* whose entry is exactly 0 left with its text-only intensity
C12_Witness ==
    \E i, j \in DOMAIN results :
        /\ Get(asegments[i], "start", 0) = 4
        /\ HasVolume(asegments[i])
        /\ 2 * volume_lookup[0] > Unit
        /\ 2 * TextIntensityOf[Get(asegments[i], "text", <<>>)] > Unit
        /\ results[i].intensity # TextIntensityOf[Get(asegments[i], "text", <<>>)]
        /\ Get(asegments[j], "start", 0) = TicksPerSecond
        /\ TicksPerSecond \in DOMAIN volume_lookup
        /\ volume_lookup[TicksPerSecond] = 0
        /\ results[j].intensity = TextIntensityOf[Get(asegments[j], "text", <<>>)]
        /\ results[j].intensity > 0

(***************************************************************************)
(* Properties of the deduplication pass.                                   *)
(***************************************************************************)
\* goal candidates at the given times, in seconds
GoalsAt(seconds) ==
    [i \in DOMAIN seconds |->
        [type |-> "goal", text |-> Strip(TxBackOfNet),
         time |-> seconds[i] * TicksPerSecond]]

\* C13: each step of the pass keeps the next candidate iff no event kept so
\* far has its type and lies strictly within the window (15 s for goal,
\* 10 s otherwise) of its time, and appends it behind the kept events;
\* dropped candidates and kept events of other types do not count.  Goal
\* candidates at 100, 108, 200 give [100, 200]; at 100, 108, 116 they
\* give [100, 116].
C13_GreedyEarliestWins ==
    [][DedupStep =>
          LET c == events[di]
              blocked ==
                  \E k \in DOMAIN deduplicated :
                      /\ deduplicated[k].type = c.type
                      /\ Abs(deduplicated[k].time - c.time)
                            < WindowSeconds(c.type) * TicksPerSecond
          IN  /\ deduplicated' =
                    IF blocked THEN deduplicated ELSE Append(deduplicated, c)
              /\ Deduplicate(GoalsAt(<<100, 108, 200>>)) = GoalsAt(<<100, 200>>)
              /\ Deduplicate(GoalsAt(<<100, 108, 116>>)) = GoalsAt(<<100, 116>>)]_vars

\* goal candidates at 0, 8 and 16 s: the one at 8 s was dropped, the one at
\* 16 s kept although within 15 s of the dropped one
C13_Witness ==
    /\ epc = "done"
    /\ Len(events) = 3
    /\ \A k \in 1..3 : events[k].type = "goal"
    /\ events[1].time = 0
    /\ events[2].time = 8 * TicksPerSecond
    /\ events[3].time = 16 * TicksPerSecond
    /\ deduplicated = <<events[1], events[3]>>

(***************************************************************************)
(* Properties of the running last_peak_time of detect_volume_peaks.        *)
(***************************************************************************)
\* 21 one-second windows, quiet except 0.7 at 5 s, 0.8 at 8 s, 0.65 at 20 s
ScenarioTimeline ==
    [k \in 1..21 |->
        [time |-> (k - 1) * TicksPerSecond,
         volume |-> CASE k = 6 -> (70 * Unit) \div 100
                      [] k = 9 -> (80 * Unit) \div 100
                      [] k = 21 -> (65 * Unit) \div 100
                      [] OTHER -> (20 * Unit) \div 100]]

\* its peaks with threshold 0.6 and a gap of 10 s
ScenarioPeaks ==
    DetectVolumePeaks(ScenarioTimeline, (6 * Unit) \div 10, 10 * TicksPerSecond)

\* last_peak_time is -min_gap_seconds until a peak is accepted and the time
\* of the latest peak afterwards; the first window at or above the
\* threshold is the first peak
LastPeakTracksPeaks ==
    /\ last_peak_time =
          IF peaks = <<>> THEN -min_gap_seconds ELSE peaks[Len(peaks)].time
    /\ \A k \in DOMAIN timeline :
          (/\ timeline[k].volume >= threshold
           /\ \A h \in 1..(k - 1) : timeline[h].volume < threshold)
              => /\ peaks # <<>>
                 /\ peaks[1].time = timeline[k].time
    /\ [i \in DOMAIN ScenarioPeaks |-> ScenarioPeaks[i].time]
          = <<5 * TicksPerSecond, 20 * TicksPerSecond>>

\* the window read by one iteration is accepted iff its volume is at or
\* above the threshold and it is at least the gap after last_peak_time, and
\* last_peak_time moves, to that window's time, only then
AcceptedIffLoudAndApart ==
    LET point == timeline'[Len(timeline')]
        accepted ==
            /\ point.volume >= threshold
            /\ point.time - last_peak_time >= min_gap_seconds
    IN  /\ accepted => /\ Len(peaks') = Len(peaks) + 1
                       /\ peaks'[Len(peaks')].time = point.time
                       /\ last_peak_time' = point.time
        /\ ~accepted => /\ peaks' = peaks
                        /\ last_peak_time' = last_peak_time

\* C14: last_peak_time starts at -min_gap_seconds and changes only when a
\* peak is accepted; a window is accepted iff volume >= threshold and
\* time - last_peak_time >= min_gap_seconds; so the first window at or above
\* the threshold is a peak, and with threshold 0.6, gap 10 and volumes 0.7
\* at 5 s, 0.8 at 8 s, 0.65 at 20 s the peaks are at 5 s and 20 s.
C14_RunningLastPeak ==
    /\ []LastPeakTracksPeaks
    /\ [][ScanPoint => AcceptedIffLoudAndApart]_vars

\* threshold 0.6, gap 10 s: quiet windows up to 4 s, a peak at 5 s, the loud
\* window at 8 s passed over
C14_Witness ==
    /\ ppc = "done"
    /\ threshold = (6 * Unit) \div 10
    /\ min_gap_seconds = 10 * TicksPerSecond
    /\ Len(timeline) >= 9
    /\ \A k \in 1..5 : timeline[k].volume < threshold
    /\ timeline[6].volume >= threshold
    /\ timeline[9].volume >= threshold
    /\ Len(peaks) = 1
    /\ peaks[1].time = 5 * TicksPerSecond
    /\ last_peak_time = 5 * TicksPerSecond

(***************************************************************************)
(* Properties of calculate_intensity.                                      *)
(***************************************************************************)
\* 100 times the sum of the cue terms of a text, the ALL-CAPS cue counted
\* when caps_run holds
CueSum100(text, handle, caps_run) ==
    LET a == AnalyzeWithSpacy(text, handle)
        high == B(HighExclamations(text)) + B(caps_run) + B(HighShout(text))
                    + B(HighWhatA(text)) + B(HighAdjective(text))
        medium == B(MediumExclamation(text)) + B(MediumPraise(text))
                      + B(MediumChance(text))
        upper == SumLetters(text, TRUE)
        alpha == SumLetters(text, FALSE)
    IN  40 * a.excitement_score + 20 * a.tension_score
        + (IF a.has_intensifier THEN 10 * Unit ELSE 0)
        + 20 * Unit * high + 8 * Unit * medium
        + Min(8 * Unit * CountChar(text, "!"), 25 * Unit)
        + Min(5 * Unit * CountChar(text, "?"), 10 * Unit)
        + (IF alpha > 0 /\ 10 * upper > 3 * alpha THEN 15 * Unit ELSE 0)

\* equal up to the two quotients the model cuts to a multiple of 1 / Unit
Close100(score, sum100) == Abs(100 * score - sum100) <= 200

\* C15: the intensity of a text is min(1.0, S), S the sum of every cue term
\* that applies (0.4 * excitement_score, 0.2 * tension_score, 0.1 for an
\* intensifier, 0.2 per matching high pattern, 0.08 per matching medium
\* pattern, min(0.08 * exclamations, 0.25), min(0.05 * questions, 0.10),
\* 0.15 for an uppercase ratio above 0.3), and "GOAL!!! What a strike from
\* Ronaldo!" scores exactly 1.0, with or without linguistic signals.
C15_CuesStack ==
    ipc = "done" =>
        /\ Close100(iscore,
                    Min(100 * Unit,
                        CueSum100(itext, ihandle, HighCapsRun(itext))))
        /\ itext = TxGoalShout => iscore = Unit

\* the scenario text scored without the spaCy model: no linguistic signal,
\* four high patterns, one medium pattern and the exclamation term sum to
\* more than 1, and the score is 1
C15_Witness ==
    /\ ipc = "done"
    /\ itext = TxGoalShout
    /\ ihandle = "none"
    /\ AnalyzeWithSpacy(itext, ihandle).excitement_score = 0
    /\ HighMatches(itext) = 4
    /\ MediumMatches(itext) = 1
    /\ CueSum100(itext, ihandle, HighCapsRun(itext)) = 113 * Unit
    /\ iscore = Unit

\* [A-Z]{3,} matched case-sensitively: three upper-case letters in a row
UpperRun(text) ==
    \E i \in DOMAIN text : text[i].c = "UPPER" /\ LetterRun(text[i].w) >= 3

\* C16: the ALL-CAPS cue adds its 0.2 only for a text with a run of three or
\* more upper-case letters: the intensity is min(1.0, S) with that cue
\* counted iff the raw text has such a run, so a text all in lower case
\* never receives it.
C16_CapsCueNeedsUppercase ==
    ipc = "done" =>
        Close100(iscore,
                 Min(100 * Unit, CueSum100(itext, ihandle, UpperRun(itext))))

(***************************************************************************)
(* Properties of the records of analyze_sentiment.                         *)
(***************************************************************************)
\* record i is the record of segment i: it has the segment's start time (0
\* when the segment has none) and stripped text, and audio features iff the
\* volume score looked up for the segment is above 0
RecordsFollowSegments ==
    /\ apc = "done" => Len(results) = Len(asegments)
    /\ apc = "analyze" => Len(results) = Len(asegments)
    /\ \A i \in DOMAIN results :
          /\ results[i].time = Get(asegments[i], "start", 0)
          /\ results[i].text = Strip(Get(asegments[i], "text", <<>>))
          /\ ("audio_features" \in DOMAIN results[i]) <=> HasVolume(asegments[i])

\* the segments read so far are left as they were
SegmentsUntouched == SubSeq(asegments', 1, Len(asegments)) = asegments

\* C17: analyze_sentiment returns exactly one record per input segment, in
\* input order, record i with the start time of segment i (0 when it has
\* none) and with an audio_features field iff the volume score looked up
\* for that segment is above 0; the input segments are not modified.
C17_OneRecordPerSegment ==
    /\ []RecordsFollowSegments
    /\ [][SegmentsUntouched]_vars

\* two segments returned as two records: the first has no start, is given
\* time 0 and the volume of key 0.0; the second, at 1 s, has no volume
C17_Witness ==
    /\ apc = "done"
    /\ Len(results) = 2
    /\ "start" \notin DOMAIN asegments[1]
    /\ results[1].time = 0
    /\ "audio_features" \in DOMAIN results[1]
    /\ results[2].time = TicksPerSecond
    /\ "audio_features" \notin DOMAIN results[2]

(***************************************************************************)
(* Properties of the detector on the reproduce_issue segments.             *)
(***************************************************************************)
\* the returned list has an event of the given type for the segment
Reported(segment, type) ==
    \E k \in DOMAIN deduplicated :
        /\ deduplicated[k].type = type
        /\ deduplicated[k].time = segment.start
        /\ deduplicated[k].text = Strip(segment.text)

\* C18: of the reproduce_issue segments, "The manager decides to make a
\* substitution." and "Ronaldo comes on for Portugal." are each reported
\* as a substitution, and the segments that only mention a change ("no
\* change in the score line", "waits to make the change") yield no event.
C18_SubstitutionNotChange ==
    epc = "done" =>
        \A i \in DOMAIN segments :
            /\ segments[i].text \in {TxSubstitution, TxComesOn}
                  => Reported(segments[i], "substitution")
            /\ segments[i].text \in {TxNoChange, TxWaitsChange}
                  => \A k \in DOMAIN deduplicated :
                         deduplicated[k].time # segments[i].start

(***************************************************************************)
(* Properties of get_peak_moments and get_exciting_moments.                *)
(***************************************************************************)
\* the one-to-one maps from the positions of a list of length k to the
\* positions of a list of length n
Injections(k, n) ==
    {f \in [1..k -> 1..n] : \A i, j \in 1..k : i # j => f[i] # f[j]}

\* the returned records are records of the list, each taken once, none less
\* intense than a record left out, those of equal intensity in input order
TopOf(returned, records) ==
    \E f \in Injections(Len(returned), Len(records)) :
        /\ \A i \in DOMAIN returned : returned[i] = records[f[i]]
        /\ \A i \in DOMAIN returned :
              \A j \in DOMAIN records \ {f[h] : h \in DOMAIN returned} :
                  records[j].intensity <= returned[i].intensity
        /\ \A i, j \in DOMAIN returned :
              (i < j /\ returned[i].intensity = returned[j].intensity)
                  => f[i] < f[j]

\* the returned records are the records at or above the threshold, in
\* input order
FilterOf(returned, records, thr) ==
    LET idx == {j \in DOMAIN records : records[j].intensity >= thr}
    IN  /\ Len(returned) = Cardinality(idx)
        /\ \A j \in idx :
              returned[Cardinality({h \in idx : h <= j})] = records[j]

\* C19: get_peak_moments returns min(top_n, len(analyzed)) records, in
\* non-increasing order of intensity, none less intense than a record left
\* out, records of equal intensity in their input order; and
\* get_exciting_moments returns exactly the records with intensity >=
\* threshold, in input order.
C19_PeakAndExcitingMoments ==
    /\ qpc = "done" =>
          /\ Len(moments) = Min(top_n, Len(analyzed))
          /\ \A i \in 1..(Len(moments) - 1) :
                moments[i].intensity >= moments[i + 1].intensity
          /\ TopOf(moments, analyzed)
    /\ qpc \in {"exciting", "done"} =>
          FilterOf(exciting, analyzed, ithreshold)

\* three records, the least intense first and the other two equally
\* intense: the top 2 are those two in input order, and the filter kept
\* two records and dropped the first
C19_Witness ==
    /\ qpc = "done"
    /\ Len(analyzed) = 3
    /\ top_n = 2
    /\ analyzed[1].intensity < analyzed[2].intensity
    /\ analyzed[2].intensity = analyzed[3].intensity
    /\ analyzed[2] # analyzed[3]
    /\ moments = <<analyzed[2], analyzed[3]>>
    /\ exciting = <<analyzed[2], analyzed[3]>>

(***************************************************************************)
(* Deduplication keeps every event type.                                   *)
(***************************************************************************)
TypesOf(es) == {es[k].type : k \in DOMAIN es}

\* C20: the first candidate of each type, in segment order, is in the
\* returned list, so the returned list has exactly the types of the raw
\* candidates, and it is empty only when no segment matched any rule set.
C20_EveryTypeSurvives ==
    epc = "done" =>
        /\ \A k \in DOMAIN events :
              (\A h \in 1..(k - 1) : events[h].type # events[k].type)
                  => \E j \in DOMAIN deduplicated : deduplicated[j] = events[k]
        /\ TypesOf(deduplicated) = TypesOf(events)
        /\ deduplicated = <<>> =>
              \A i \in DOMAIN segments : MatchingOf[segments[i].text] = {}

\* three candidates of two types: the second mention of one type, within
\* its window, was dropped and both types are returned
C20_Witness ==
    /\ epc = "done"
    /\ Len(events) = 3
    /\ Len(deduplicated) = 2
    /\ Cardinality(TypesOf(events)) = 2
    /\ events[3].type = events[1].type
    /\ deduplicated = <<events[1], events[2]>>

(***************************************************************************)
(* Properties of get_volume_for_segments.                                  *)
(***************************************************************************)
\* C21: for a recording of N >= 1 samples and any segment (start or end
\* missing, negative, past the end of the recording, end before start),
\* the clamped sample range satisfies 0 <= start_idx < end_idx <= N, so the
\* chunk is not empty and the all-zero default branch is not taken; one
\* result is produced per segment, in order, carrying the segment's fields.
C21_ChunkNeverEmpty ==
    /\ vsegments # <<>> =>
          /\ 0 <= start_idx
          /\ start_idx < end_idx
          /\ end_idx <= Len(audio_data)
          /\ vbranch = "measured"
    /\ Len(vresults) = Len(vsegments)
    /\ \A i \in DOMAIN vresults :
          \A k \in DOMAIN vsegments[i] : vresults[i][k] = vsegments[i][k]

\* a one-sample recording at full scale: a segment starting past its end
\* and ending before its start, then a segment starting before 0 with no
\* end, each measured on the sample range [0, 1) with volume score 0.65
C21_Witness ==
    /\ vpc = "done"
    /\ audio_data = <<2>>
    /\ vsegments = << [start |-> 2 * TicksPerSecond, end |-> 0],
                      [start |-> (-3 * TicksPerSecond) \div 2] >>
    /\ start_idx = 0
    /\ end_idx = 1
    /\ vresults[1].volume_score = (65 * Unit) \div 100
    /\ vresults[2].volume_score = (65 * Unit) \div 100

====
